---- MODULE Spec2Model ----
(***************************************************************************)
(* A model of science.py (sciplot): the data normaliser                    *)
(* BasePlot._format_data, option loading, the plot() selector, Histogram   *)
(* binning and the render entry points.                                    *)
(*                                                                         *)
(* Python values are tagged records.  Numbers are exact rationals n/d in   *)
(* lowest terms (floats are modelled without rounding).  Tuples and lists  *)
(* are one tag, "list": the code only distinguishes them through is_list,  *)
(* which accepts both.  Strings of the model are single names and are not  *)
(* iterated.                                                               *)
(***************************************************************************)
EXTENDS Integers, Sequences, FiniteSets, TLC

\* ---------------------------------------------------------------- bounds
MaxLen == 3
MaxOpts == 2
MaxSamples == 3
MaxRenders == 2
MaxBinsCap == 2

\* ---------------------------------------------------------------- values
V(t, n, d, s, items) == [t |-> t, n |-> n, d |-> d, s |-> s, items |-> items]

None == V("none", 0, 1, "", <<>>)

Num(i) == V("num", i, 1, "", <<>>)

Str(s) == V("str", 0, 1, s, <<>>)

Bool(b) == V("bool", IF b THEN 1 ELSE 0, 1, "", <<>>)

List(xs) == V("list", 0, 1, "", xs)

Pair(k, v) == List(<<k, v>>)

\* a slot of a dict's table; dict.items() turns each slot into a tuple
Entry(k, v) == V("entry", 0, 1, "", <<k, v>>)

Dict(entries) == V("dict", 0, 1, "", entries)

Method(name) == V("method", 0, 1, name, <<>>)

Abs(x) == IF x < 0 THEN -x ELSE x

RECURSIVE Gcd(_, _)
Gcd(a, b) == IF b = 0 THEN a ELSE Gcd(b, a % b)

\* the rational n/d (d # 0) in lowest terms with a positive denominator
Rat(n, d) ==
    LET g == Gcd(Abs(n), Abs(d))
        sg == IF d < 0 THEN -1 ELSE 1
    IN  V("num", sg * (n \div g), Abs(d) \div g, "", <<>>)

RatLess(a, b) == a.n * b.d < b.n * a.d

RatMul(a, b) == Rat(a.n * b.n, a.d * b.d)

\* true division a / b, b # 0
RatDiv(a, b) == Rat(a.n * b.d, a.d * b.n)

\* int(x): truncation towards zero
PyInt(x) == IF x.n >= 0 THEN x.n \div x.d ELSE -((-x.n) \div x.d)

\* max(a, b) of Python: b only when b > a
PyMax(a, b) == IF RatLess(a, b) THEN b ELSE a

\* ------------------------------------------------------------ science.py
\* is_list = lambda a: hasattr(a, '__iter__') and not isinstance(a, str)
is_list(a) == a.t \in {"list", "dict"}

Ok(series) == [err |-> "none", series |-> series]

Raise(e) == [err |-> e, series |-> <<>>]

\* dict.items(): one (key, value) tuple per slot, in insertion order
dict_items(data) ==
    [i \in 1..Len(data.items) |-> Pair(data.items[i].items[1], data.items[i].items[2])]

\* list(enumerate(data))
enumerate(xs) == [i \in 1..Len(xs) |-> Pair(Num(i - 1), xs[i])]

\* _format_data with the pair test widened to len(data[0]) >= 2
format_data_pairs_from_two(data) ==
    IF data.t = "dict"
    THEN Ok(dict_items(data))
    ELSE IF is_list(data)
    THEN IF Len(data.items) > 0 /\ is_list(data.items[1])
         THEN IF Len(data.items[1].items) >= 2
              THEN Ok(data.items)
              ELSE Ok([i \in 1..Len(data.items) |-> Pair(None, data.items[i])])
         ELSE Ok(enumerate(data.items))
    ELSE Raise("ValueError")

format_data(data) ==
    IF data.t = "dict"
    THEN Ok(dict_items(data))
    ELSE IF is_list(data)
    THEN IF Len(data.items) > 0 /\ is_list(data.items[1])
         THEN IF Len(data.items[1].items) = 2
              THEN Ok(data.items)
              ELSE Ok([i \in 1..Len(data.items) |-> Pair(None, data.items[i])])
         ELSE Ok(enumerate(data.items))
    ELSE Raise("ValueError")

\* ------------------------------------------------------ classes, attributes
VARIABLES
    pc,         \* "idle", "returned", "raised", "constructed", "rendered"
    call,       \* the call made: [op, cls, data, bin, options]
    ret,        \* the list returned by a direct _format_data call
    self,       \* the plot object: [cls, attrs], attrs its instance __dict__
    error,      \* the exception that left the call, or "none"
    max_bins,   \* the class attribute Histogram.max_bins
    renders,    \* the number of render operations on self
    ax          \* what the last render left on its axes

vars == <<pc, call, ret, self, error, max_bins, renders, ax>>

Classes == {"BasePlot", "TimePlot", "Network", "BarPlot", "Histogram",
            "ScatterPlot", "LinePlot", "MatrixPlot"}

Parent(c) ==
    CASE c = "BasePlot" -> "object"
      [] c = "Histogram" -> "BarPlot"
      [] OTHER -> "BasePlot"

Property(name) == V("property", 0, 1, name, <<>>)

EmptyDict == [x \in {} |-> None]

\* the names each class statement binds, with their values
ClassBody(c) ==
    CASE c = "BasePlot" ->
            [grid |-> Bool(FALSE), title |-> Str(""), xlabel |-> Str(""),
             ylabel |-> Str(""), fontsize |-> Num(14), colors |-> Str("cubehelix"),
             show |-> Method("show"), save |-> Method("save"),
             cmap |-> Property("cmap")]
            @@ ("_format_data" :> Method("_format_data"))
            @@ ("__init__" :> Method("__init__"))
            @@ ("_apply_options" :> Method("_apply_options"))
            @@ ("_draw_plot" :> Method("_draw_plot"))
            @@ ("_setup_margins" :> Method("_setup_margins"))
      [] c = "Network" ->
            [layout |-> Str("neato"), node_size |-> None, with_labels |-> None,
             directed |-> Bool(FALSE), arrowstyle |-> Str("-|>"),
             node_color |-> Str("r"), graph |-> Property("graph")]
            @@ ("_draw_dot_plot" :> Method("_draw_dot_plot"))
            @@ ("_draw_plot" :> Method("Network._draw_plot"))
      [] c = "BarPlot" ->
            [bars_width |-> Rat(9, 10), max_direct_labels |-> Num(10)]
            @@ ("_draw" :> Method("BarPlot._draw"))
      [] c = "Histogram" ->
            [max_bins |-> Num(max_bins)]
            @@ ("__init__" :> Method("Histogram.__init__"))
      [] c = "ScatterPlot" -> ("_draw" :> Method("ScatterPlot._draw"))
      [] c = "LinePlot" ->
            [fill |-> Bool(FALSE)] @@ ("_draw" :> Method("LinePlot._draw"))
      [] c = "MatrixPlot" ->
            ("_draw" :> Method("MatrixPlot._draw"))
            @@ ("_setup_margins" :> Method("MatrixPlot._setup_margins"))
      [] OTHER -> EmptyDict

\* attribute lookup along the method resolution order
RECURSIVE class_attrs(_)
class_attrs(c) ==
    IF c = "object" THEN EmptyDict ELSE ClassBody(c) @@ class_attrs(Parent(c))

NoObj == [cls |-> "none", attrs |-> EmptyDict]

hasattr(obj, name) ==
    name \in DOMAIN obj.attrs \/ name \in DOMAIN class_attrs(obj.cls)

\* a property without a setter refuses assignment
is_readonly(obj, name) ==
    /\ name \in DOMAIN class_attrs(obj.cls)
    /\ class_attrs(obj.cls)[name].t = "property"

setattr(obj, name, value) ==
    [obj EXCEPT !.attrs = (name :> value) @@ obj.attrs]

getattr(obj, name) ==
    IF name \in DOMAIN obj.attrs /\ ~is_readonly(obj, name)
    THEN obj.attrs[name]
    ELSE class_attrs(obj.cls)[name]

Built(obj) == [err |-> "none", self |-> obj]

Failed(e) == [err |-> e, self |-> NoObj]

\* options: the keyword arguments, a sequence of <<name, value>> in call order
RECURSIVE apply_options(_, _)
apply_options(obj, options) ==
    IF options = <<>>
    THEN Built(obj)
    ELSE LET option == Head(options)[1]
             value == Head(options)[2]
         IN  IF ~hasattr(obj, option)
             THEN Failed("ValueError")
             ELSE IF is_readonly(obj, option)
             THEN Failed("AttributeError")
             ELSE apply_options(setattr(obj, option, value), Tail(options))

\* a keyword argument named like the positional parameter `data` cannot be
\* bound: the call itself raises TypeError
binds_data_twice(options) == \E i \in 1..Len(options) : options[i][1] = "data"

\* BasePlot.__init__ run on a fresh instance of cls whose __dict__ is attrs
BasePlot_init(cls, attrs, data, options) ==
    IF binds_data_twice(options)
    THEN Failed("TypeError")
    ELSE LET r == format_data(data)
         IN  IF r.err # "none"
             THEN Failed(r.err)
             ELSE apply_options([cls |-> cls,
                                 attrs |-> ("data" :> List(r.series)) @@ attrs],
                                options)

\* ------------------------------------------------------------------ plot()
\* `for a, b in data` binds an element of exactly two items
unpackable(e) == e.t = "list" /\ Len(e.items) = 2

unpack_error(e) == IF e.t \in {"list", "str"} THEN "ValueError" ELSE "TypeError"

\* lists and dicts cannot be members of a set
hashable(v) == ~is_list(v)

Chosen(cls) == [err |-> "none", cls |-> cls]

NotChosen(e) == [err |-> e, cls |-> "none"]

\* is_list(data[0][1]) and len(data[0][1]) > 2, with the length test lost
is_matrix_any_length(first) == is_list(first)

\* is_list(data[0][1]) and len(data[0][1]) > 2
is_matrix(first) == is_list(first) /\ Len(first.items) > 2

\* len(keys) != len(set(keys)), with the comparison inverted
has_duplicates_inverted(keys) ==
    Len(keys) = Cardinality({keys[i] : i \in 1..Len(keys)})

\* len(keys) != len(set(keys))
has_duplicates(keys) ==
    Len(keys) # Cardinality({keys[i] : i \in 1..Len(keys)})

\* the branches of plot() after _format_data, on the normalised list
select(data) ==
    IF Len(data) = 0
    THEN Chosen("LinePlot")
    ELSE IF \E i \in 1..Len(data) : ~unpackable(data[i])
    THEN LET i == CHOOSE j \in 1..Len(data) :
                     /\ ~unpackable(data[j])
                     /\ \A k \in 1..(j - 1) : unpackable(data[k])
         IN  NotChosen(unpack_error(data[i]))
    ELSE LET keys == [i \in 1..Len(data) |-> data[i].items[1]]
             first == data[1].items[2]
         IN  IF is_matrix(first)
             THEN Chosen("MatrixPlot")
             ELSE IF \E i \in 1..Len(keys) : ~hashable(keys[i])
             THEN NotChosen("TypeError")
             ELSE IF has_duplicates(keys)
             THEN Chosen("ScatterPlot")
             ELSE IF data[1].items[1].t = "str"
             THEN Chosen("BarPlot")
             ELSE Chosen("LinePlot")

plot(data, options) ==
    IF binds_data_twice(options)
    THEN Failed("TypeError")
    ELSE LET r == format_data(data)
         IN  IF r.err # "none"
             THEN Failed(r.err)
             ELSE LET s == select(r.series)
                  IN  IF s.err # "none"
                      THEN Failed(s.err)
                      ELSE BasePlot_init(s.cls, EmptyDict, List(r.series), options)

\* -------------------------------------------------------------- Histogram
RatSub(a, b) == Rat(a.n * b.d - b.n * a.d, a.d * b.d)

RatAbs(a) == Rat(Abs(a.n), a.d)

RECURSIVE sorted(_)
sorted(S) ==
    IF S = {}
    THEN <<>>
    ELSE LET m == CHOOSE x \in S : \A y \in S : ~RatLess(y, x)
         IN  <<m>> \o sorted(S \ {m})

RECURSIVE min(_)
min(xs) ==
    IF Len(xs) = 1
    THEN xs[1]
    ELSE LET m == min(Tail(xs)) IN IF RatLess(m, xs[1]) THEN m ELSE xs[1]

\* values: a set of numbers; returns <<smallest gap, span>>
min_max_dif(values) ==
    IF Cardinality(values) < 2
    THEN <<Num(0), Num(0)>>
    ELSE LET sorted_values == sorted(values)
             difs == [i \in 1..(Len(sorted_values) - 1) |->
                         RatAbs(RatSub(sorted_values[i + 1], sorted_values[i]))]
         IN  <<min(difs), RatSub(sorted_values[Len(sorted_values)], sorted_values[1])>>

\* Counter(xs).items(): <<element, count>> in order of first occurrence
RECURSIVE Counter(_)
Counter(xs) ==
    IF xs = <<>>
    THEN <<>>
    ELSE LET c == Counter(SubSeq(xs, 1, Len(xs) - 1))
             x == xs[Len(xs)]
         IN  IF \E i \in 1..Len(c) : c[i][1] = x
             THEN [i \in 1..Len(c) |-> IF c[i][1] = x THEN <<x, c[i][2] + 1>> ELSE c[i]]
             ELSE Append(c, <<x, 1>>)

\* d[key] = value on a dict's table: an existing key keeps its slot
dict_set(entries, key, value) ==
    IF \E i \in 1..Len(entries) : entries[i].items[1] = key
    THEN [i \in 1..Len(entries) |->
             IF entries[i].items[1] = key THEN Entry(key, value) ELSE entries[i]]
    ELSE Append(entries, Entry(key, value))

\* k*bin cut to an integer key
bin_key_truncated(k, bin) == Num(PyInt(RatMul(Num(k), bin)))

\* the key a bin index is stored under
bin_key(k, bin) == RatMul(Num(k), bin)

\* the bin index of a sample
bin_index(s, bin) == PyInt(RatDiv(s, bin))

\* {k*bin: v for k, v in items}
RECURSIVE bin_dict(_, _)
bin_dict(items, bin) ==
    IF items = <<>>
    THEN <<>>
    ELSE LET it == items[Len(items)]
         IN  dict_set(bin_dict(SubSeq(items, 1, Len(items) - 1), bin),
                      bin_key(it[1], bin), Num(it[2]))

\* the width Histogram.__init__ uses: the argument, or the computed one;
\* m is what self.max_bins reads, the class attribute (no option is loaded yet)
bin_width(m, samples, bin) ==
    IF bin.t = "none"
    THEN LET mm == min_max_dif({samples.items[i] : i \in 1..Len(samples.items)})
         IN  PyMax(mm[1], RatDiv(mm[2], Num(m)))
    ELSE bin

Histogram_init(m, samples, bin, options) ==
    IF bin.t = "none" /\ m = 0
    THEN Failed("ZeroDivisionError")
    ELSE LET b == bin_width(m, samples, bin)
         IN  IF Len(samples.items) > 0 /\ b.n = 0
             THEN Failed("ZeroDivisionError")
             ELSE LET indices == [i \in 1..Len(samples.items) |->
                                     bin_index(samples.items[i], b)]
                      data == Dict(bin_dict(Counter(indices), b))
                  IN  BasePlot_init("Histogram", ("bars_width" :> b), data, options)

\* ----------------------------------------------------------------- render
truthy(v) ==
    CASE v.t \in {"none"} -> FALSE
      [] v.t \in {"bool", "num"} -> v.n # 0
      [] v.t = "str" -> v.s # ""
      [] v.t \in {"list", "dict"} -> v.items # <<>>
      [] OTHER -> TRUE

Drawn(obj) == [err |-> "none", self |-> obj]

NotDrawn(e, obj) == [err |-> e, self |-> obj]

\* the first exception of iterating `for a, b in data`, or "none"
iter_pairs_error(data) ==
    IF ~is_list(data)
    THEN "TypeError"
    ELSE IF \E i \in 1..Len(data.items) : ~unpackable(data.items[i])
    THEN unpack_error(data.items[CHOOSE j \in 1..Len(data.items) :
                                    /\ ~unpackable(data.items[j])
                                    /\ \A k \in 1..(j - 1) : unpackable(data.items[k])])
    ELSE "none"

\* hasattr(v, '__iter__')
iterable(v) == v.t \in {"list", "dict", "str"}

numeric(v) == v.t \in {"num", "bool"}

\* sorted(xs) inside min_max_dif: two or more items must all be numbers
unsortable(xs) == Len(xs) >= 2 /\ \E i \in 1..Len(xs) : ~numeric(xs[i])

\* the TypeError of _draw_plot before self._draw is called, if any
before_draw_error(keys, values) ==
    \/ ~iterable(values[1]) /\ unsortable(values)
    \/ ~iterable(keys[1]) /\ keys[1].t # "none" /\ unsortable(keys)
    \/ keys[1].t = "str" /\ \E i \in 1..Len(keys) : keys[i].t # "str"

\* format_number(n, width) takes log10(width) unless both are whole numbers
format_number_error(n, width) == ~(width.d = 1 /\ n.d = 1) /\ width.n = 0

\* len(rects) <= self.max_direct_labels
few_bars(n, max_direct_labels) == ~RatLess(max_direct_labels, Num(n))

\* BarPlot._draw: the ValueError of a label's format_number, if any
bar_labels_error(obj, values) ==
    /\ few_bars(Len(values), getattr(obj, "max_direct_labels"))
    /\ \A i \in 1..Len(values) : numeric(values[i])
    /\ \E i \in 1..Len(values) :
          format_number_error(values[i], min_max_dif({values[j] : j \in 1..Len(values)})[2])

\* BasePlot._draw_plot up to the calls into the drawing surface
BasePlot_draw_plot(obj) ==
    LET data == getattr(obj, "data")
        keys == [i \in 1..Len(data.items) |-> data.items[i].items[1]]
        values == [i \in 1..Len(data.items) |-> data.items[i].items[2]]
    IN  IF iter_pairs_error(data) # "none"
        THEN NotDrawn(iter_pairs_error(data), obj)
        ELSE IF Len(data.items) = 0
        THEN NotDrawn("IndexError", obj)
        ELSE IF before_draw_error(keys, values)
        THEN NotDrawn("TypeError", obj)
        ELSE IF ~hasattr(obj, "_draw")
        THEN NotDrawn("AttributeError", obj)
        ELSE IF getattr(obj, "_draw") = Method("BarPlot._draw") /\ bar_labels_error(obj, values)
        THEN NotDrawn("ValueError", obj)
        ELSE IF obj.cls # "MatrixPlot" /\ \E i \in 1..Len(values) : ~numeric(values[i])
        THEN NotDrawn("TypeError", obj)
        ELSE Drawn(obj)

\* the axes before anything is drawn on them
BlankAxes == [yaxis_visible |-> TRUE, bar_labels |-> 0]

\* what a completed _draw_plot of obj leaves on the axes: whether the y-axis
\* is visible and how many value labels were put on bars
drawn_axes(obj) ==
    IF obj.cls = "Network"
    THEN [yaxis_visible |-> FALSE, bar_labels |-> 0]
    ELSE IF getattr(obj, "_draw") = Method("BarPlot._draw")
    THEN LET n == Len(getattr(obj, "data").items)
         IN  IF few_bars(n, getattr(obj, "max_direct_labels"))
             THEN [yaxis_visible |-> FALSE, bar_labels |-> n]
             ELSE BlankAxes
    ELSE BlankAxes

\* the Network.graph property: nodes must be hashable and not None
graph_error(data) ==
    IF iter_pairs_error(data) # "none"
    THEN iter_pairs_error(data)
    ELSE IF \E i \in 1..Len(data.items) :
                \/ ~hashable(data.items[i].items[1])
                \/ ~hashable(data.items[i].items[2])
    THEN "TypeError"
    ELSE IF \E i \in 1..Len(data.items) : data.items[i].items[1].t = "none"
    THEN "ValueError"
    ELSE "none"

NetworkLabelLimit == 10

LabelledNodeSize == 300

PlainNodeSize == 20

Network_draw_plot(obj) ==
    LET data == getattr(obj, "data")
    IN  IF graph_error(data) # "none"
        THEN NotDrawn(graph_error(data), obj)
        ELSE LET o1 == IF /\ getattr(obj, "with_labels").t = "none"
                          /\ Len(data.items) < NetworkLabelLimit
                       THEN setattr(obj, "with_labels", Bool(TRUE))
                       ELSE obj
                 o2 == IF getattr(o1, "node_size").t = "none"
                       THEN IF truthy(getattr(o1, "with_labels"))
                            THEN setattr(o1, "node_size", Num(LabelledNodeSize))
                            ELSE setattr(o1, "node_size", Num(PlainNodeSize))
                       ELSE o1
             IN  IF truthy(getattr(o2, "with_labels")) /\ Len(data.items) = 0
                 THEN NotDrawn("ValueError", o2)
                 ELSE Drawn(o2)

\* self._draw_plot(): Network overrides BasePlot's
draw_plot(obj) ==
    IF obj.cls = "Network" THEN Network_draw_plot(obj) ELSE BasePlot_draw_plot(obj)

\* obj.name(): an instance attribute of that name shadows the method
call_method(obj, name) ==
    IF getattr(obj, name).t # "method"
    THEN NotDrawn("TypeError", obj)
    ELSE draw_plot(obj)

\* ------------------------------------------------------------ input sets
SeqsUpTo(S, n) == UNION {[1..k -> S] : k \in 0..n}

Row1 == List(<<Num(0)>>)

Row3 == List(<<Num(0), Num(1), Num(0)>>)

Scalars == {Num(0), Num(1), Str("a")}

KeyVals == {Num(0), Num(1), Str("a"), Str("b"), None}

PairElems ==
    {Pair(k, Num(0)) : k \in KeyVals} \cup {Pair(Num(0), Row3), Pair(Str("a"), Row3)}

Elements == Scalars \cup PairElems \cup {Row1, Row3}

ListInputs == {List(xs) : xs \in SeqsUpTo(Elements, MaxLen)}

Entries ==
    {Entry(k, v) : k \in KeyVals, v \in {Num(0), Num(1)}}
        \cup {Entry(Num(0), Row3), Entry(Str("a"), Row3)}

\* a dict holds each key once
DictInputs ==
    {Dict(es) : es \in {xs \in SeqsUpTo(Entries, MaxLen) :
                           \A i, j \in 1..Len(xs) :
                               xs[i].items[1] = xs[j].items[1] => i = j}}

Unsupported == {Num(0), Str("a"), None}

Inputs == ListInputs \cup DictInputs \cup Unsupported

OptionNames == {"title", "grid", "fill", "bars_width", "max_bins",
                "max_direct_labels", "with_labels", "node_size",
                "data", "show", "save", "cmap", "bogus"}

OptionValue(name) ==
    CASE name = "title" -> Str("t")
      [] name \in {"grid", "fill"} -> Bool(TRUE)
      [] name = "with_labels" -> Bool(FALSE)
      [] name = "bars_width" -> Rat(1, 2)
      [] name = "max_bins" -> Num(1)
      [] name = "max_direct_labels" -> Num(3)
      [] name = "node_size" -> Num(50)
      [] name = "data" -> Num(5)
      [] name = "cmap" -> Str("hot")
      [] name = "bogus" -> Num(1)
      [] OTHER -> None

\* keyword arguments: distinct names, in call order
OptionDicts ==
    {[i \in 1..Len(ns) |-> <<ns[i], OptionValue(ns[i])>>] :
        ns \in {xs \in SeqsUpTo(OptionNames, MaxOpts) :
                   \A i, j \in 1..Len(xs) : xs[i] = xs[j] => i = j}}

Opt(name) == <<<<name, OptionValue(name)>>>>

PlotOptions == {<<>>, Opt("grid"), Opt("bogus")}

HistOptions == {<<>>, Opt("max_bins"), Opt("bars_width"), Opt("data")}

ConstructInputs ==
    {List(<<>>), List(<<Num(1), Num(0)>>), List(<<Num(2), Num(0), Num(1)>>),
     List(<<Pair(Str("a"), Num(0)), Pair(Str("b"), Str("a"))>>),
     Dict(<<Entry(Str("a"), None)>>), Num(0)}

SampleVals == {Num(i) : i \in -2..2}

SampleLists == {List(xs) : xs \in SeqsUpTo(SampleVals, MaxSamples)}

BinChoices == {None, Num(1), Num(2), Rat(1, 2), Rat(3, 2)}

DefaultMaxBins == 40

MaxBinsChoices == {DefaultMaxBins} \cup 1..MaxBinsCap

\* --------------------------------------------------------- state machine
NoCall == [op |-> "none", cls |-> "none", data |-> None, bin |-> None, options |-> <<>>]

Init ==
    /\ pc = "idle"
    /\ call = NoCall
    /\ ret = <<>>
    /\ self = NoObj
    /\ error = "none"
    /\ max_bins = DefaultMaxBins
    /\ renders = 0
    /\ ax = BlankAxes

\* BasePlot._format_data(data), called directly
FormatData ==
    /\ pc = "idle"
    /\ \E data \in Inputs :
          LET r == format_data(data)
          IN  /\ pc' = IF r.err = "none" THEN "returned" ELSE "raised"
              /\ ret' = r.series
              /\ error' = r.err
              /\ call' = [NoCall EXCEPT !.op = "format_data", !.data = data]
    /\ UNCHANGED <<self, max_bins, renders, ax>>

Finish(r) ==
    /\ pc' = IF r.err = "none" THEN "constructed" ELSE "raised"
    /\ self' = r.self
    /\ error' = r.err

\* plot(data, **options)
Plot ==
    /\ pc = "idle"
    /\ \E data \in Inputs, options \in PlotOptions :
          /\ Finish(plot(data, options))
          /\ call' = [NoCall EXCEPT !.op = "plot", !.data = data, !.options = options]
    /\ UNCHANGED <<ret, max_bins, renders, ax>>

\* cls(data, **options) for a class that inherits BasePlot.__init__
Construct ==
    /\ pc = "idle"
    /\ \E cls \in Classes \ {"Histogram"}, data \in ConstructInputs,
          options \in OptionDicts :
          /\ Finish(BasePlot_init(cls, EmptyDict, data, options))
          /\ call' = [NoCall EXCEPT !.op = "construct", !.cls = cls, !.data = data,
                                    !.options = options]
    /\ UNCHANGED <<ret, max_bins, renders, ax>>

\* Histogram(samples, bin, **options), with the class attribute max_bins = m
NewHistogram ==
    /\ pc = "idle"
    /\ \E m \in MaxBinsChoices, samples \in SampleLists, bin \in BinChoices,
          options \in HistOptions :
          /\ max_bins' = m
          /\ Finish(Histogram_init(m, samples, bin, options))
          /\ call' = [NoCall EXCEPT !.op = "histogram", !.cls = "Histogram",
                                    !.data = samples, !.bin = bin,
                                    !.options = options]
    /\ UNCHANGED <<ret, renders, ax>>

Render(r) ==
    /\ pc' = "rendered"
    /\ self' = r.self
    /\ error' = r.err
    /\ renders' = renders + 1
    /\ ax' = IF r.err = "none" THEN drawn_axes(r.self) ELSE BlankAxes
    /\ UNCHANGED <<call, ret, max_bins>>

\* self.show()
Show ==
    /\ pc \in {"constructed", "rendered"}
    /\ renders < MaxRenders
    /\ Render(call_method(self, "show"))

\* self.save(path)
Save ==
    /\ pc \in {"constructed", "rendered"}
    /\ renders < MaxRenders
    /\ Render(call_method(self, "save"))

\* show_grid(plots) with self one of several plots: p._draw_plot(fig, ax)
ShowGrid ==
    /\ pc \in {"constructed", "rendered"}
    /\ renders < MaxRenders
    /\ Render(draw_plot(self))

Next ==
    \/ FormatData
    \/ Plot
    \/ Construct
    \/ NewHistogram
    \/ Show
    \/ Save
    \/ ShowGrid

Spec == Init /\ [][Next]_vars

\* ================================================================ claims
IsPair(e) == e.t = "list" /\ Len(e.items) = 2

KeyVariant(k) == IF k.t \in {"num", "bool"} THEN "numeric" ELSE k.t

Shape(v) == IF is_list(v) THEN Len(v.items) ELSE -1

\* the Series invariant of the data model: pairs, one key variant, one value shape
WellFormed(series) ==
    /\ \A i \in 1..Len(series) : IsPair(series[i])
    /\ \A i \in 1..Len(series) : KeyVariant(series[i].items[1]) \in {"str", "numeric", "none"}
    /\ \A i, j \in 1..Len(series) :
          /\ KeyVariant(series[i].items[1]) = KeyVariant(series[j].items[1])
          /\ Shape(series[i].items[2]) = Shape(series[j].items[2])

KeysOf(series) == {series[i].items[1] : i \in 1..Len(series)}

\* the decision list of the selector, read on a whole well-formed Series
Variant(series) ==
    IF series = <<>> THEN "LinePlot"
    ELSE IF \A i \in 1..Len(series) : Shape(series[i].items[2]) > 2 THEN "MatrixPlot"
    ELSE IF Len(series) # Cardinality(KeysOf(series)) THEN "ScatterPlot"
    ELSE IF \A i \in 1..Len(series) : series[i].items[1].t = "str" THEN "BarPlot"
    ELSE "LinePlot"

Returned == pc \in {"constructed", "rendered"}

PlotSeries == format_data(call.data).series

PlotOnSeries == call.op = "plot" /\ format_data(call.data).err = "none"

\* C1: on a well-formed Series plot() with no explicit type returns the first
\* matching variant of: empty -> Line, rows longer than 2 -> Matrix, repeated
\* keys -> Scatter, string keys -> Bar, otherwise Line; with no options it
\* always returns, and never a Histogram or a Network.
C1_SelectorDecisionOrder ==
    (PlotOnSeries /\ WellFormed(PlotSeries)) =>
        /\ call.options = <<>> => Returned
        /\ Returned => /\ self.cls = Variant(PlotSeries)
                       /\ self.cls \notin {"Histogram", "Network"}

C1_Witness ==
    /\ PlotOnSeries /\ WellFormed(PlotSeries) /\ Returned
    /\ Len(PlotSeries) = 2
    /\ self.cls = "BarPlot"

HasRepeatedKey(series) == Len(series) # Cardinality(KeysOf(series))

AllPairs(series) ==
    \A i \in 1..Len(series) :
        IsPair(series[i]) /\ KeyVariant(series[i].items[1]) \in {"str", "numeric", "none"}

\* C2 as stated: every non-empty Series with a repeated key selects Scatter,
\* whatever its keys and values.
C2_RepeatedKeyAlwaysScatter ==
    (/\ PlotOnSeries /\ call.options = <<>>
     /\ PlotSeries # <<>> /\ AllPairs(PlotSeries) /\ HasRepeatedKey(PlotSeries)) =>
        Returned /\ self.cls = "ScatterPlot"

\* C2 amended: a non-empty Series with a repeated key selects Scatter unless
\* the value of its first pair is a sequence longer than 2, and then Matrix.
C2_RepeatedKeyScatterUnlessMatrix ==
    (/\ PlotOnSeries /\ call.options = <<>>
     /\ PlotSeries # <<>> /\ AllPairs(PlotSeries) /\ HasRepeatedKey(PlotSeries)) =>
        /\ Returned
        /\ self.cls = IF Shape(PlotSeries[1].items[2]) > 2
                      THEN "MatrixPlot" ELSE "ScatterPlot"

C2_Witness ==
    /\ PlotOnSeries /\ call.options = <<>> /\ Returned
    /\ AllPairs(PlotSeries) /\ HasRepeatedKey(PlotSeries)
    /\ PlotSeries[1].items[1].t = "str"
    /\ self.cls = "ScatterPlot"

FormatCall == call.op = "format_data"

In == call.data.items

\* C3: _format_data follows the case table on every homogeneous supported
\* input: a mapping gives one pair per key with the same key set (and each
\* key's value); an empty sequence gives an empty Series; 2-element pairs are
\* returned unchanged; rows of length >= 3 give (None, row) in row order;
\* scalars [v0..vn-1] give (0, v0) .. (n-1, vn-1).
C3_NormalizerCaseTable ==
    FormatCall =>
        /\ call.data.t = "dict" =>
              /\ pc = "returned"
              /\ Len(ret) = Len(In)
              /\ \A i \in 1..Len(ret) : IsPair(ret[i])
              /\ KeysOf(ret) = {In[i].items[1] : i \in 1..Len(In)}
              /\ \A i \in 1..Len(In) : \E j \in 1..Len(ret) :
                    ret[j].items = In[i].items
        /\ (call.data.t = "list" /\ In = <<>>) => (pc = "returned" /\ ret = <<>>)
        /\ (call.data.t = "list" /\ \A i \in 1..Len(In) : Shape(In[i]) = 2) =>
              (pc = "returned" /\ ret = In)
        /\ (call.data.t = "list" /\ \A i \in 1..Len(In) : Shape(In[i]) >= 3) =>
              /\ pc = "returned"
              /\ Len(ret) = Len(In)
              /\ \A i \in 1..Len(In) : ret[i].items = <<None, In[i]>>
        /\ (call.data.t = "list" /\ \A i \in 1..Len(In) : ~is_list(In[i])) =>
              /\ pc = "returned"
              /\ Len(ret) = Len(In)
              /\ \A i \in 1..Len(In) : ret[i].items = <<Num(i - 1), In[i]>>

C3_Witness ==
    /\ FormatCall /\ pc = "returned"
    /\ call.data.t = "list" /\ Len(In) = 2
    /\ \A i \in 1..Len(In) : Shape(In[i]) >= 3
    /\ ret[2].items[1] = None

\* C8 as stated: whatever _format_data returns without error is a well-formed
\* Series, also for an input that mixes pairs, rows and scalars.
C8_ResultAlwaysWellFormed ==
    (FormatCall /\ pc = "returned") => WellFormed(ret)

HistCall == call.op = "histogram"

Samples == call.data.items

Distinct(xs) == Cardinality({xs[i] : i \in 1..Len(xs)})

\* the mapping a Histogram was built with: its data, a list of (key, count)
Bins == getattr(self, "data").items

\* the width the constructor binned with
Width == bin_width(max_bins, call.data, call.bin)

\* C4 as stated: with the width computed from the samples (at least two
\* distinct values) the mapping has at most max_bins bin-start keys.
C4_AtMostMaxBins ==
    (/\ HistCall /\ Returned /\ call.options = <<>>
     /\ call.bin = None /\ Distinct(Samples) >= 2) =>
        Len(Bins) <= max_bins

RECURSIVE SumCounts(_)
SumCounts(bins) ==
    IF bins = <<>> THEN 0 ELSE bins[1].items[2].n + SumCounts(Tail(bins))

\* the samples the constructor assigned to the bin of index k
Assigned(k) == {i \in 1..Len(Samples) : PyInt(RatDiv(Samples[i], Width)) = k}

\* C5: for a positive bin width the counts sum to the number of samples, and
\* every bin that received samples is stored once, under index * width, with
\* the number of samples assigned to it.
C5_CountsPreserved ==
    (/\ HistCall /\ Returned /\ call.options \in {<<>>, Opt("max_bins")}
     /\ Width.n > 0) =>
        /\ SumCounts(Bins) = Len(Samples)
        /\ \A i \in 1..Len(Samples) :
              LET k == PyInt(RatDiv(Samples[i], Width))
              IN  Cardinality({j \in 1..Len(Bins) :
                      /\ Bins[j].items[1] = Rat(k * Width.n, Width.d)
                      /\ Bins[j].items[2] = Num(Cardinality(Assigned(k)))}) = 1
        /\ Len(Bins) = Cardinality({PyInt(RatDiv(Samples[i], Width)) :
                                       i \in 1..Len(Samples)})

C5_Witness ==
    /\ HistCall /\ Returned /\ call.options = <<>>
    /\ call.bin = Rat(1, 2)
    /\ Len(Samples) = 3 /\ Len(Bins) = 2

\* C6 as stated: built without a bin width from samples with at most one
\* distinct value, the Histogram uses width 1 and construction completes.
C6_DegenerateWidthOne ==
    (/\ HistCall /\ call.options = <<>>
     /\ call.bin = None /\ Distinct(Samples) <= 1) =>
        /\ pc # "raised"
        /\ getattr(self, "bars_width") = Num(1)

Floor(x) == x.n \div x.d

\* C10 as stated: with width w > 0 every sample s, negative ones included, is
\* counted under the key floor(s / w) * w, and only such keys are stored.
C10_FloorBinIndex ==
    (/\ HistCall /\ Returned /\ call.options = <<>>
     /\ call.bin # None /\ call.bin.n > 0) =>
        /\ \A i \in 1..Len(Samples) : \E j \in 1..Len(Bins) :
              /\ Bins[j].items[1]
                    = Rat(Floor(RatDiv(Samples[i], call.bin)) * call.bin.n, call.bin.d)
              /\ Bins[j].items[2].n
                    = Cardinality({h \in 1..Len(Samples) :
                          Floor(RatDiv(Samples[h], call.bin))
                              = Floor(RatDiv(Samples[i], call.bin))})
        /\ \A j \in 1..Len(Bins) : \E i \in 1..Len(Samples) :
              Bins[j].items[1]
                  = Rat(Floor(RatDiv(Samples[i], call.bin)) * call.bin.n, call.bin.d)

CommonOptions == {"title", "xlabel", "ylabel", "grid", "fontsize", "colors"}

\* the configuration options of each variant
ConfigOptions(cls) ==
    CommonOptions \cup
    CASE cls = "LinePlot" -> {"fill"}
      [] cls = "BarPlot" -> {"bars_width", "max_direct_labels"}
      [] cls = "Histogram" -> {"bars_width", "max_direct_labels", "max_bins"}
      [] cls = "Network" -> {"layout", "node_size", "with_labels", "directed",
                             "arrowstyle", "node_color"}
      [] OTHER -> {}

\* C7 as stated: an option name that is not a configuration option of the
\* variant makes construction fail, so no plot is built with such an option
\* (read in the code's favour: any exception counts as the rejection, the
\* invalid-option ValueError or the TypeError / AttributeError that the names
\* data and cmap meet).
C7_UnknownOptionRejected ==
    (/\ call.op = "construct"
     /\ \E i \in 1..Len(call.options) : call.options[i][1] \notin ConfigOptions(call.cls)) =>
        pc = "raised" /\ error \in {"ValueError", "TypeError", "AttributeError"}

\* C9 as stated: a render operation that completes leaves the Series and
\* every option of the plot as they were.
C9_RenderLeavesPlotUnchanged ==
    [][(pc' = "rendered" /\ error' = "none") => self' = self]_vars

BarsDrawn == Len(getattr(self, "data").items)

\* C11 as stated: a BarPlot render hides the y-axis and labels every bar
\* exactly when the number of bars is strictly below max_direct_labels; with
\* exactly max_direct_labels bars the y-axis stays and no bar is labelled.
C11_DirectLabelsStrictlyBelow ==
    (pc = "rendered" /\ error = "none" /\ self.cls \in {"BarPlot", "Histogram"}) =>
        IF RatLess(Num(BarsDrawn), getattr(self, "max_direct_labels"))
        THEN ax = [yaxis_visible |-> FALSE, bar_labels |-> BarsDrawn]
        ELSE ax = [yaxis_visible |-> TRUE, bar_labels |-> 0]

====
